---- MODULE Spec2Model ----
(***************************************************************************)
(* task-runner-mcp, src/src/index.ts: the in-memory task registry, the     *)
(* per-task log buffer, and the start / signal / stop / wait / prune       *)
(* protocol, as a state machine.                                           *)
(*                                                                         *)
(* Node runs one callback at a time.  A callback delivered by the event    *)
(* loop (a tool call arriving on the transport, a child's 'exit', 'data'   *)
(* or 'error' event, a timer) is one action.  The code after an `await`    *)
(* is a promise continuation: it runs in the microtask queue, which Node   *)
(* drains before it delivers the next event-loop callback.  Continue(c)    *)
(* is that continuation, and every event-loop action is guarded by Idle    *)
(* (no continuation is runnable).                                          *)
(*                                                                         *)
(* An 'error' event emitted on an object that has no 'error' listener is   *)
(* an uncaught exception, and the file installs no handler for those: the  *)
(* controller process ends.  up tells whether it still runs.               *)
(***************************************************************************)
EXTENDS Integers, Sequences, FiniteSets, TLC

(* ------------------------------ bounds --------------------------------- *)

\* task_start calls that yield a process
MaxTasks == 2
\* task_wait / task_stop / task_write calls that suspend at an await
MaxCalls == 2
\* tasks plus suspended calls in one behaviour
MaxLoad == 3
\* chunks (stdout, stderr, process-error lines) delivered per task
MaxChunks == 1
\* chunks delivered to the one task of the log specification
MaxLogChunks == 3

\* a behaviour has cap.tasks tasks and cap.calls suspended calls at most, and
\* cap.chunks chunks per task
Caps ==
  { c \in [tasks : 1..MaxTasks, calls : 1..MaxCalls, chunks : {MaxChunks}] :
      c.tasks + c.calls = MaxLoad }

(* ------------------------- program constants --------------------------- *)

DEFAULT_MAX_LOG_BYTES == 1048576
\* z.number().int().min(1024) on task_start's maxLogBytes
MIN_MAX_LOG_BYTES == 1024
\* the per-item overhead pushLog adds to the text's byte length
LOG_ITEM_OVERHEAD == 16
\* exitCode: number | null; the model writes null as -1 (exit codes are >= 0)
NullCode == -1
\* byte length of U+FFFD, which toString("utf8") puts for an invalid byte
REPLACEMENT_BYTES == 3

Null == "null"
Undefined == "undefined"

TaskIds == 1..MaxTasks
CallIds == 1..MaxCalls

(* --------------------------- input domains ----------------------------- *)

\* maxLogBytes argument of task_start: omitted, or the smallest the schema allows
MaxLogBytesArgs == {Undefined, "min"}
\* timeoutMs argument of task_wait: omitted, or a number of ms
TimeoutArgs == {Undefined, "ms"}
\* signal argument of task_signal: any string; proc.kill throws on one that
\* names no signal
SignalArgs == {"SIGINT", "SIGBOGUS"}
\* how spawn fails: it throws, or it returns a child that has no pid
SpawnFailures == {"throws", "no pid"}
\* how a write to the child's stdin ends
WriteOutcomes == {"ok", "refused", "stdin error"}
\* includeRunning argument of task_prune
PruneArgs == {Undefined, "false", "true"}
\* what the OS reports on 'exit': (code, signal)
ExitReports ==
  { [code |-> 0, sig |-> Null],
    [code |-> NullCode, sig |-> "SIGKILL"] }
Streams == {"stdout", "stderr"}
\* raw chunks from the child's pipes: raw bytes, of which inv are bytes that
\* are not valid UTF-8
Chunks == { [raw |-> 100, inv |-> 0], [raw |-> 500, inv |-> 0], [raw |-> 1000, inv |-> 50] }
\* Buffer.from(`Process error: ${String(err)}\n`): a short, valid UTF-8 line
ErrorLines == { [raw |-> 40, inv |-> 0] }

VARIABLES
  tasks,   \* the registry Map, as the sequence of its keys in insertion order
  task,    \* every Task object ever created, by id (closures keep pruned ones)
  calls,   \* tool calls that suspended at an await, by order of arrival
  resp,    \* the response this step sent to the caller (NoResp: none)
  kills,   \* the proc.kill calls this step made
  wrote,   \* the proc.stdin.write this step made (NoWrite: none)
  up,      \* the controller process is running
  cap      \* the bounds of this behaviour, fixed by Init

vars == <<tasks, task, calls, resp, kills, wrote, up, cap>>

(* ------------------------------ helpers -------------------------------- *)

Range(s) == { s[i] : i \in DOMAIN s }

Max(a, b) == IF a > b THEN a ELSE b
Min(a, b) == IF a < b THEN a ELSE b

\* (mutant) the lookup finds every task ever started, pruned or not
getTaskOkEver(id) == id \in DOMAIN task

\* tasks.get(id) is defined
getTaskOk(id) == id \in Range(tasks)

NoSummary ==
  [ id |-> 0, pid |-> 0, state |-> "none", exitCode |-> NullCode, signal |-> Null,
    logBytes |-> 0, maxLogBytes |-> 0 ]

PidOf(id) == 1000 + id

summary(id) ==
  [ id |-> id, pid |-> PidOf(id), state |-> task[id].state,
    exitCode |-> task[id].exitCode, signal |-> task[id].signal,
    logBytes |-> task[id].logBytes, maxLogBytes |-> task[id].maxLogBytes ]

\* a response: op and id name the call; err is "none" or the error thrown;
\* kind tells the shape of the result; s, a, b, items carry its fields.
\* A call that suspended answers with a = its number in calls; a call that
\* returned without awaiting answers with a = 0 (but see signal, logs, prune)
Resp(op, id, err, kind, s, a, b, items) ==
  [op |-> op, id |-> id, err |-> err, kind |-> kind, s |-> s, a |-> a, b |-> b,
   items |-> items]

NoResp == Resp("none", 0, "none", "none", NoSummary, 0, 0, <<>>)

NotFound(op, id) == Resp(op, id, "NotFound", "error", NoSummary, 0, 0, <<>>)

Summarized(op, id, c) == Resp(op, id, "none", "summary", summary(id), c, 0, <<>>)

NoWrite == [id |-> 0, state |-> "none", newline |-> FALSE]

\* what a step shows to the outside: its response, its kills, its stdin write
Emit(r, k, w) == resp' = r /\ kills' = k /\ wrote' = w /\ cap' = cap

\* ... of a step the controller survives
Out(r, k, w) == Emit(r, k, w) /\ up' = up

\* a continuation is runnable: its awaited promise is settled
Runnable(c) ==
  /\ c \in DOMAIN calls
  /\ calls[c].pc \in {"await1", "await2", "awaitw"}
  /\ calls[c].settled # "pending"

\* the controller runs and the microtask queue is empty: the event loop
\* delivers the next callback
Idle == up /\ \A c \in DOMAIN calls : ~Runnable(c)

Init ==
  /\ tasks = <<>>
  /\ task = <<>>
  /\ calls = <<>>
  /\ resp = NoResp
  /\ kills = {}
  /\ wrote = NoWrite
  /\ up = TRUE
  /\ cap \in Caps

(* ------------------------------- pushLog ------------------------------- *)

\* Buffer.byteLength(chunk.toString("utf8"), "utf8")
TextBytes(chunk) == (chunk.raw - chunk.inv) + REPLACEMENT_BYTES * chunk.inv

\* (mutant) an evicted item gives back its text's bytes, not its overhead
RECURSIVE EvictNoOverhead(_, _, _)
EvictNoOverhead(items, bytes, max) ==
  IF bytes > max /\ Len(items) > 0
  THEN EvictNoOverhead(Tail(items), bytes - Head(items).bytes, max)
  ELSE [logs |-> items, logBytes |-> bytes]

\* (mutant) pop for shift: the loop drops the newest item, not the oldest
RECURSIVE EvictNewest(_, _, _)
EvictNewest(items, bytes, max) ==
  IF bytes > max /\ Len(items) > 0
  THEN EvictNewest(SubSeq(items, 1, Len(items) - 1),
                   bytes - (items[Len(items)].bytes + LOG_ITEM_OVERHEAD), max)
  ELSE [logs |-> items, logBytes |-> bytes]

\* the while loop of pushLog: shift from the front while over budget
RECURSIVE Evict(_, _, _)
Evict(items, bytes, max) ==
  IF bytes > max /\ Len(items) > 0
  THEN Evict(Tail(items), bytes - (Head(items).bytes + LOG_ITEM_OVERHEAD), max)
  ELSE [logs |-> items, logBytes |-> bytes]

\* pushLog(task, stream, chunk): the Task record afterwards.  An item is its
\* stream tag, its text's byte length, and n, the chunk's number of arrival
\* (Date.now() plays no part in what the code decides)
pushLog(t, stream, chunk) ==
  LET item == [stream |-> stream, bytes |-> TextBytes(chunk), n |-> t.seen + 1]
      r == Evict(Append(t.logs, item),
                 t.logBytes + TextBytes(chunk) + LOG_ITEM_OVERHEAD, t.maxLogBytes)
  IN  [t EXCEPT !.logs = r.logs, !.logBytes = r.logBytes, !.seen = t.seen + 1]

(* ----------------------------- task_start ------------------------------ *)

\* (mutant) ids counted off the registry's size: a pruned task's id comes back
freshIdReused == Len(tasks) + 1

\* randomUUID(): an id no task has had
freshId == Len(task) + 1

newTask(maxLogBytes) ==
  [ state |-> "running", exitCode |-> NullCode, signal |-> Null,
    maxLogBytes |-> IF maxLogBytes = Undefined THEN DEFAULT_MAX_LOG_BYTES
                    ELSE MIN_MAX_LOG_BYTES,
    logBytes |-> 0, logs |-> <<>>, waiters |-> <<>>, seen |-> 0 ]

\* spawn yields a pid: the task is created, its handlers attached, registered
task_start(maxLogBytes) ==
  /\ Idle
  /\ Len(task) < cap.tasks
  /\ LET id == freshId IN
       /\ task' = IF id \in DOMAIN task
                  THEN [task EXCEPT ![id] = newTask(maxLogBytes)]
                  ELSE Append(task, newTask(maxLogBytes))
       /\ tasks' = IF id \in Range(tasks) THEN tasks ELSE Append(tasks, id)
       /\ Out(Resp("start", id, "none", "started",
                   [NoSummary EXCEPT !.id = id, !.pid = PidOf(id), !.state = "running"],
                   0, 0, <<>>), {}, NoWrite)
  /\ UNCHANGED calls

\* the 'error' event Node emits on the next tick for a child that failed to
\* spawn finds a listener only if line 138 was reached: otherwise it is an
\* uncaught exception, which ends the controller
survives(how) == how # "no pid"

\* spawn fails, and nothing is created or registered.  "throws": spawn itself
\* throws, and the handler with it.  "no pid": spawn returns a child without
\* a pid and the handler throws at line 107, before it attaches a listener
\* for the child's 'error' event
task_start_fail(how) ==
  /\ Idle
  /\ Emit(Resp("start", 0, IF how = "throws" THEN "SpawnError" ELSE "LaunchError",
                "error", NoSummary, 0, 0, <<>>), {}, NoWrite)
  /\ up' = survives(how)
  /\ UNCHANGED <<tasks, task, calls>>

(* ------------------- task_status, task_list, task_logs ----------------- *)

task_status(id) ==
  /\ Idle
  /\ Out(IF getTaskOk(id) THEN Summarized("status", id, 0) ELSE NotFound("status", id),
         {}, NoWrite)
  /\ UNCHANGED <<tasks, task, calls>>

task_list ==
  /\ Idle
  /\ Out(Resp("list", 0, "none", "list", NoSummary, Len(tasks), 0,
              [i \in DOMAIN tasks |-> summary(tasks[i])]), {}, NoWrite)
  /\ UNCHANGED <<tasks, task, calls>>

\* Array.prototype.slice(start) for start >= 0
slice(items, start) == SubSeq(items, Min(start, Len(items)) + 1, Len(items))

\* an optional number: <<>> when the argument is omitted, <<n>> when given
Omitted == <<>>
Given(n) == <<n>>

\* (mutant) the two tests in the other order: offset wins over tail
selectLogsOffsetFirst(items, offset, tail) ==
  IF offset # Omitted THEN slice(items, offset[1])
  ELSE IF tail # Omitted THEN slice(items, Max(0, Len(items) - tail[1]))
  ELSE items

\* the items task_logs selects
selectLogs(items, offset, tail) ==
  IF tail # Omitted THEN slice(items, Max(0, Len(items) - tail[1]))
  ELSE IF offset # Omitted THEN slice(items, offset[1])
  ELSE items

task_logs(id, offset, tail) ==
  /\ Idle
  /\ Out(IF getTaskOk(id)
         THEN LET items == selectLogs(task[id].logs, offset, tail)
              IN  Resp("logs", id, "none", "logs",
                       [NoSummary EXCEPT !.id = id, !.pid = PidOf(id),
                                         !.state = task[id].state,
                                         !.exitCode = task[id].exitCode,
                                         !.signal = task[id].signal],
                       Len(task[id].logs), Len(items), items)
         ELSE NotFound("logs", id), {}, NoWrite)
  /\ UNCHANGED <<tasks, task, calls>>

(* -------------------------- suspended calls ---------------------------- *)

\* kind, id: the tool and its task; pc: the await the call is suspended at;
\* timer: its setTimeout; settled: what settled the promise it awaits;
\* n1, n2: how often the waiter it pushed in phase 1, 2 has been invoked;
\* sent: the signals it has sent; won1: what won its first race;
\* res: the response it returned
newCall(kind, id, timer, sent) ==
  [ kind |-> kind, id |-> id, pc |-> IF kind = "write" THEN "awaitw" ELSE "await1",
    timer |-> timer, settled |-> "pending", n1 |-> 0, n2 |-> 0,
    sent |-> sent, won1 |-> "pending", res |-> NoResp ]

Waiter(c, ph) == [c |-> c, ph |-> ph]

\* (mutant) one waiter slot: a second waiter replaces the first
pushWaiterOnly(t, w) == [t EXCEPT !.waiters = <<w>>]

\* t.waiters.push(...)
pushWaiter(t, w) == [t EXCEPT !.waiters = Append(@, w)]

\* one t.proc.kill(sig), with the state the task record had when it was made
Kill(id, sig, by, c) ==
  [id |-> id, sig |-> sig, by |-> by, c |-> c, state |-> task[id].state]

\* (mutant) the early return is never taken
notRunningNever(id) == FALSE

\* t.state !== "running", the early return of task_signal and task_stop
notRunning(id) == task[id].state # "running"

(* ----------------------------- task_write ------------------------------ *)

\* (mutant) no check of the state: the write is made on any registered task
task_write_unchecked(id, addNewline) ==
  /\ Idle
  /\ \/ /\ ~getTaskOk(id)
        /\ Out(NotFound("write", id), {}, NoWrite)
        /\ UNCHANGED calls
     \/ /\ getTaskOk(id)
        /\ Len(calls) < cap.calls
        /\ calls' = Append(calls, newCall("write", id, "none", <<>>))
        /\ Out(NoResp, {},
               [id |-> id, state |-> task[id].state, newline |-> addNewline])
  /\ UNCHANGED <<tasks, task>>

task_write(id, addNewline) ==
  /\ Idle
  /\ \/ /\ ~getTaskOk(id)
        /\ Out(NotFound("write", id), {}, NoWrite)
        /\ UNCHANGED calls
     \/ /\ getTaskOk(id)
        /\ task[id].state # "running"
        /\ Out(Resp("write", id, "NotRunning", "error", NoSummary, 0, 0, <<>>),
               {}, NoWrite)
        /\ UNCHANGED calls
     \/ /\ getTaskOk(id)
        /\ task[id].state = "running"
        /\ Len(calls) < cap.calls
        /\ calls' = Append(calls, newCall("write", id, "none", <<>>))
        /\ Out(NoResp, {},
               [id |-> id, state |-> task[id].state, newline |-> addNewline])
  /\ UNCHANGED <<tasks, task>>

\* the callback of proc.stdin.write: e is set or not.  When the write itself
\* fails (EPIPE: the child has closed its stdin), the stream calls back with
\* the error and then emits 'error'; proc.stdin has no 'error' listener, so
\* that event is an uncaught exception, raised on the next tick, before the
\* continuation of the await runs.  A write refused because the stream was
\* destroyed before calls back with the error and emits nothing
WriteDone(c, how) ==
  /\ Idle
  /\ c \in DOMAIN calls
  /\ calls[c].pc = "awaitw"
  /\ calls[c].settled = "pending"
  /\ calls' = [calls EXCEPT ![c].settled = IF how = "ok" THEN "ok" ELSE "err"]
  /\ Emit(NoResp, {}, NoWrite)
  /\ up' = (how # "stdin error")
  /\ UNCHANGED <<tasks, task>>

(* ----------------------------- task_signal ----------------------------- *)

\* ok is what proc.kill returns
task_signal(id, signal, ok) ==
  /\ Idle
  /\ \/ /\ ~getTaskOk(id)
        /\ Out(NotFound("signal", id), {}, NoWrite)
     \/ /\ getTaskOk(id)
        /\ notRunning(id)
        /\ Out(Resp("signal", id, "none", "not running", NoSummary, 0, 0, <<>>),
               {}, NoWrite)
     \/ /\ getTaskOk(id)
        /\ ~notRunning(id)
        /\ signal = "SIGBOGUS"
        /\ Out(Resp("signal", id, "UnknownSignal", "error", NoSummary, 0, 0, <<>>),
               {}, NoWrite)
     \/ /\ getTaskOk(id)
        /\ ~notRunning(id)
        /\ signal # "SIGBOGUS"
        /\ Out(Resp("signal", id, "none", "signalled",
                    [NoSummary EXCEPT !.id = id, !.pid = PidOf(id), !.signal = signal],
                    IF ok THEN 1 ELSE 0, 0, <<>>),
               {Kill(id, signal, "signal", 0)}, NoWrite)
  /\ UNCHANGED <<tasks, task, calls>>

(* ------------------------------ task_wait ------------------------------ *)

\* task_wait sets a timer only when timeoutMs is given
waitTimer(timeoutMs) == IF timeoutMs = Undefined THEN "none" ELSE "armed"

task_wait(id, timeoutMs) ==
  /\ Idle
  /\ \/ /\ ~getTaskOk(id)
        /\ Out(NotFound("wait", id), {}, NoWrite)
        /\ UNCHANGED <<task, calls>>
     \/ /\ getTaskOk(id)
        /\ task[id].state = "exited"
        /\ Out(Summarized("wait", id, 0), {}, NoWrite)
        /\ UNCHANGED <<task, calls>>
     \/ /\ getTaskOk(id)
        /\ task[id].state # "exited"
        /\ Len(calls) < cap.calls
        /\ LET c == Len(calls) + 1 IN
             /\ task' = [task EXCEPT ![id] = pushWaiter(@, Waiter(c, 1))]
             /\ calls' = Append(calls, newCall("wait", id, waitTimer(timeoutMs), <<>>))
        /\ Out(NoResp, {}, NoWrite)
  /\ UNCHANGED tasks

(* ------------------------------ task_stop ------------------------------ *)

\* setTimeout(..., timeoutMs ?? 5000): task_stop sets a timer whatever timeoutMs is
stopTimer == "armed"

\* so timeoutMs is no input of the model's task_stop
task_stop(id) ==
  /\ Idle
  /\ \/ /\ ~getTaskOk(id)
        /\ Out(NotFound("stop", id), {}, NoWrite)
        /\ UNCHANGED <<task, calls>>
     \/ /\ getTaskOk(id)
        /\ notRunning(id)
        /\ Out(Summarized("stop", id, 0), {}, NoWrite)
        /\ UNCHANGED <<task, calls>>
     \/ /\ getTaskOk(id)
        /\ ~notRunning(id)
        /\ Len(calls) < cap.calls
        /\ LET c == Len(calls) + 1 IN
             /\ task' = [task EXCEPT ![id] = pushWaiter(@, Waiter(c, 1))]
             /\ calls' = Append(calls, newCall("stop", id, stopTimer, <<"SIGTERM">>))
             /\ Out(NoResp, {Kill(id, "SIGTERM", "stop", c)}, NoWrite)
  /\ UNCHANGED tasks

(* ------------------------- the child's events -------------------------- *)

\* (mutant) the handler returns at once when the task has exited
DataDropsLate(id, stream, chunk) ==
  /\ Idle
  /\ id \in DOMAIN task
  /\ task[id].seen < cap.chunks
  /\ task' = IF task[id].state = "running"
             THEN [task EXCEPT ![id] = pushLog(@, stream, chunk)]
             ELSE task
  /\ Out(NoResp, {}, NoWrite)
  /\ UNCHANGED <<tasks, calls>>

\* proc.stdout.on("data") / proc.stderr.on("data"): also after 'exit'
Data(id, stream, chunk) ==
  /\ Idle
  /\ id \in DOMAIN task
  /\ task[id].seen < cap.chunks
  /\ task' = [task EXCEPT ![id] = pushLog(@, stream, chunk)]
  /\ Out(NoResp, {}, NoWrite)
  /\ UNCHANGED <<tasks, calls>>

\* (mutant) a process error also marks the task as exited
ProcErrorExits(id, line) ==
  /\ Idle
  /\ id \in DOMAIN task
  /\ task[id].seen < cap.chunks
  /\ task' = [task EXCEPT ![id] = [pushLog(@, "stderr", line) EXCEPT !.state = "exited"]]
  /\ Out(NoResp, {}, NoWrite)
  /\ UNCHANGED <<tasks, calls>>

\* proc.on("error"): one synthesized stderr line, nothing else
ProcError(id, line) ==
  /\ Idle
  /\ id \in DOMAIN task
  /\ task[id].seen < cap.chunks
  /\ task' = [task EXCEPT ![id] = pushLog(@, "stderr", line)]
  /\ Out(NoResp, {}, NoWrite)
  /\ UNCHANGED <<tasks, calls>>

Count(ws, w) == Cardinality({ i \in DOMAIN ws : ws[i] = w })

\* (mutant) the exit handler takes one waiter off the list, not all of them
drainedFirst(ws) == IF ws = <<>> THEN <<>> ELSE <<Head(ws)>>

\* task.waiters.splice(0): the waiters the exit handler invokes ...
drained(ws) == ws

\* (mutant) slice(0) for splice(0): the waiters are invoked but stay queued
undrainedKept(ws) == ws

\* ... and the waiters left in the list
undrained(ws) == <<>>

\* the phase whose race a suspended call is awaiting
Phase(call) == IF call.pc = "await1" THEN 1 ELSE IF call.pc = "await2" THEN 2 ELSE 0

\* (mutant) code ?? 0: a child killed by a signal is given exit code 0
ExitCodeDefaulted(id, rep) ==
  /\ Idle
  /\ id \in DOMAIN task
  /\ task[id].state = "running"
  /\ LET ws == drained(task[id].waiters) IN
       /\ task' = [task EXCEPT ![id] =
                     [@ EXCEPT !.state = "exited",
                               !.exitCode = IF rep.code = NullCode THEN 0 ELSE rep.code,
                               !.signal = rep.sig,
                               !.waiters = undrained(task[id].waiters)]]
       /\ calls' = [c \in DOMAIN calls |->
                     [calls[c] EXCEPT
                        !.n1 = @ + Count(ws, Waiter(c, 1)),
                        !.n2 = @ + Count(ws, Waiter(c, 2)),
                        !.settled =
                          IF /\ @ = "pending"
                             /\ Phase(calls[c]) # 0
                             /\ Count(ws, Waiter(c, Phase(calls[c]))) > 0
                          THEN "exit" ELSE @]]
  /\ Out(NoResp, {}, NoWrite)
  /\ UNCHANGED tasks

\* proc.on("exit"): Node emits it once per child, so only for a running task
Exit(id, rep) ==
  /\ Idle
  /\ id \in DOMAIN task
  /\ task[id].state = "running"
  /\ LET ws == drained(task[id].waiters) IN
       /\ task' = [task EXCEPT ![id] =
                     [@ EXCEPT !.state = "exited", !.exitCode = rep.code,
                               !.signal = rep.sig,
                               !.waiters = undrained(task[id].waiters)]]
       /\ calls' = [c \in DOMAIN calls |->
                     [calls[c] EXCEPT
                        !.n1 = @ + Count(ws, Waiter(c, 1)),
                        !.n2 = @ + Count(ws, Waiter(c, 2)),
                        !.settled =
                          IF /\ @ = "pending"
                             /\ Phase(calls[c]) # 0
                             /\ Count(ws, Waiter(c, Phase(calls[c]))) > 0
                          THEN "exit" ELSE @]]
  /\ Out(NoResp, {}, NoWrite)
  /\ UNCHANGED tasks

\* a setTimeout callback of task_wait or task_stop, resolve(null) / resolve(false),
\* while its race is undecided.  (On a race the exit has settled it resolves a
\* settled promise, which does nothing: Finish drops such a timer.)
TimerFire(c) ==
  /\ Idle
  /\ c \in DOMAIN calls
  /\ calls[c].timer = "armed"
  /\ calls[c].settled = "pending"
  /\ calls' = [calls EXCEPT ![c].timer = "fired", ![c].settled = "timer"]
  /\ Out(NoResp, {}, NoWrite)
  /\ UNCHANGED <<tasks, task>>

(* --------------------- continuations after an await -------------------- *)

Finish(call, res) ==
  [call EXCEPT !.pc = "done", !.res = res,
               !.timer = IF @ = "armed" THEN "none" ELSE @]

\* (mutant) a wait that times out "cleans up" by emptying the task's waiter list
ContinueWaitCleanup(c) ==
  LET id == calls[c].id
      res == IF calls[c].settled = "timer"
             THEN Resp("wait", id, "none", "timeout",
                       [NoSummary EXCEPT !.id = id, !.pid = PidOf(id),
                                         !.state = task[id].state],
                       c, 0, <<>>)
             ELSE Summarized("wait", id, c)
  IN
  /\ calls[c].kind = "wait"
  /\ calls' = [calls EXCEPT ![c] = Finish(@, res)]
  /\ task' = IF calls[c].settled = "timer"
             THEN [task EXCEPT ![id].waiters = <<>>] ELSE task
  /\ Out(res, {}, NoWrite)
  /\ UNCHANGED tasks

\* task_wait after `await done` / `await Promise.race([done, timer])`
ContinueWait(c) ==
  LET id == calls[c].id
      res == IF calls[c].settled = "timer"
             THEN Resp("wait", id, "none", "timeout",
                       [NoSummary EXCEPT !.id = id, !.pid = PidOf(id),
                                         !.state = task[id].state],
                       c, 0, <<>>)
             ELSE Summarized("wait", id, c)
  IN
  /\ calls[c].kind = "wait"
  /\ calls' = [calls EXCEPT ![c] = Finish(@, res)]
  /\ Out(res, {}, NoWrite)
  /\ UNCHANGED <<tasks, task>>

\* (mutant) the escalation is not conditional
escalatesAlways(exited, state) == TRUE

\* if (!exited && t.state === "running")
escalates(exited, state) == ~exited /\ state = "running"

\* task_stop after the first race: escalate, or return the summary
ContinueStop1(c) ==
  LET id == calls[c].id
      exited == calls[c].settled = "exit"
  IN
  /\ calls[c].kind = "stop"
  /\ calls[c].pc = "await1"
  /\ IF escalates(exited, task[id].state)
     THEN /\ task' = [task EXCEPT ![id] = pushWaiter(@, Waiter(c, 2))]
          /\ calls' = [calls EXCEPT ![c] =
                         [@ EXCEPT !.pc = "await2", !.won1 = calls[c].settled,
                                   !.settled = "pending", !.timer = "armed",
                                   !.sent = Append(@, "SIGKILL")]]
          /\ Out(NoResp, {Kill(id, "SIGKILL", "stop", c)}, NoWrite)
     ELSE /\ calls' = [calls EXCEPT ![c] =
                         Finish([@ EXCEPT !.won1 = calls[c].settled],
                                Summarized("stop", id, c))]
          /\ Out(Summarized("stop", id, c), {}, NoWrite)
          /\ UNCHANGED task
  /\ UNCHANGED tasks

\* task_stop after the second race: return the summary, whatever the state
ContinueStop2(c) ==
  LET id == calls[c].id IN
  /\ calls[c].kind = "stop"
  /\ calls[c].pc = "await2"
  /\ calls' = [calls EXCEPT ![c] = Finish(@, Summarized("stop", id, c))]
  /\ Out(Summarized("stop", id, c), {}, NoWrite)
  /\ UNCHANGED <<tasks, task>>

\* task_write after the write's callback: "ok", or the write's error rethrown
ContinueWrite(c) ==
  LET id == calls[c].id
      res == IF calls[c].settled = "ok"
             THEN Resp("write", id, "none", "ok", NoSummary, c, 0, <<>>)
             ELSE Resp("write", id, "WriteError", "error", NoSummary, c, 0, <<>>)
  IN
  /\ calls[c].kind = "write"
  /\ calls' = [calls EXCEPT ![c] = Finish(@, res)]
  /\ Out(res, {}, NoWrite)
  /\ UNCHANGED <<tasks, task>>

Continue(c) ==
  /\ up
  /\ Runnable(c)
  /\ \/ ContinueWait(c)
     \/ ContinueStop1(c)
     \/ ContinueStop2(c)
     \/ ContinueWrite(c)

(* ------------------------------ task_prune ----------------------------- *)

\* the condition under which the loop deletes an entry
prunes(id, includeRunning) == task[id].state = "exited" \/ includeRunning

\* (mutant) an index loop over a list: deleting an entry skips the one after it
RECURSIVE pruneLoopSkip(_, _)
pruneLoopSkip(ids, includeRunning) ==
  IF ids = <<>> THEN [kept |-> <<>>, removed |-> 0]
  ELSE IF prunes(Head(ids), includeRunning)
       THEN IF Len(ids) = 1 THEN [kept |-> <<>>, removed |-> 1]
            ELSE LET rest == pruneLoopSkip(Tail(Tail(ids)), includeRunning) IN
                 [kept |-> <<ids[2]>> \o rest.kept, removed |-> rest.removed + 1]
       ELSE LET rest == pruneLoopSkip(Tail(ids), includeRunning) IN
            [kept |-> <<Head(ids)>> \o rest.kept, removed |-> rest.removed]

\* for (const [id, t] of tasks): deleting the current key of a Map while
\* iterating it skips nothing; the result is the keys kept and the count removed
RECURSIVE pruneLoop(_, _)
pruneLoop(ids, includeRunning) ==
  IF ids = <<>> THEN [kept |-> <<>>, removed |-> 0]
  ELSE LET rest == pruneLoop(Tail(ids), includeRunning) IN
       IF prunes(Head(ids), includeRunning)
       THEN [kept |-> rest.kept, removed |-> rest.removed + 1]
       ELSE [kept |-> <<Head(ids)>> \o rest.kept, removed |-> rest.removed]

\* (mutant) prune stops what it removes: SIGTERM to every removed running task
task_prune_kill(includeRunning) ==
  /\ Idle
  /\ LET r == pruneLoop(tasks, includeRunning = "true") IN
       /\ tasks' = r.kept
       /\ Out(Resp("prune", 0, "none", "pruned", NoSummary, r.removed, Len(r.kept),
                   <<>>),
              { Kill(id, "SIGTERM", "prune", 0) :
                  id \in { k \in Range(tasks) \ Range(r.kept) :
                             task[k].state = "running" } },
              NoWrite)
  /\ UNCHANGED <<task, calls>>

\* includeRunning is optional: undefined is falsy
task_prune(includeRunning) ==
  /\ Idle
  /\ LET r == pruneLoop(tasks, includeRunning = "true") IN
       /\ tasks' = r.kept
       /\ Out(Resp("prune", 0, "none", "pruned", NoSummary, r.removed, Len(r.kept),
                   <<>>), {}, NoWrite)
  /\ UNCHANGED <<task, calls>>

(* ------------------------------- shutdown ------------------------------ *)

\* the SIGINT / SIGTERM handler of the controller.  A signal that has a
\* listener loses its default action, and the listener does not call
\* process.exit: the controller goes on running
shutdown ==
  /\ Idle
  /\ Out(NoResp,
         { Kill(tasks[i], "SIGTERM", "shutdown", 0) :
             i \in { j \in DOMAIN tasks : task[tasks[j]].state = "running" } },
         NoWrite)
  /\ UNCHANGED <<tasks, task, calls>>

(* ---------------------------- specification ---------------------------- *)

\* Spec is the whole machine.  Its tasks have the smallest log budget, its log
\* traffic is one kind of stdout chunk and the process-error line, and its
\* task_logs arguments are few.
LifeMaxLogBytesArgs == {"min"}
LifeStreams == {"stdout"}
LifeChunks == { ch \in Chunks : ch.raw = 500 }
LifeLogArgs == {Omitted, Given(1)}

Next ==
  \/ \E m \in LifeMaxLogBytesArgs : task_start(m)
  \/ \E how \in SpawnFailures : task_start_fail(how)
  \/ \E id \in TaskIds : task_status(id)
  \/ task_list
  \/ \E id \in TaskIds, offset \in LifeLogArgs, tail \in LifeLogArgs : task_logs(id, offset, tail)
  \/ \E id \in TaskIds, nl \in BOOLEAN : task_write(id, nl)
  \/ \E c \in CallIds, how \in WriteOutcomes : WriteDone(c, how)
  \/ \E id \in TaskIds, sig \in SignalArgs, ok \in BOOLEAN : task_signal(id, sig, ok)
  \/ \E id \in TaskIds, ms \in TimeoutArgs : task_wait(id, ms)
  \/ \E id \in TaskIds : task_stop(id)
  \/ \E id \in TaskIds, s \in LifeStreams, ch \in LifeChunks : Data(id, s, ch)
  \/ \E id \in TaskIds, ln \in ErrorLines : ProcError(id, ln)
  \/ \E id \in TaskIds, rep \in ExitReports : Exit(id, rep)
  \/ \E c \in CallIds : TimerFire(c)
  \/ \E c \in CallIds : Continue(c)
  \/ \E inc \in PruneArgs : task_prune(inc)
  \/ shutdown

Spec == Init /\ [][Next]_vars

\* Timers fire, and a continuation whose promise is settled runs: what the
\* event loop guarantees while the controller runs.  Nothing makes a client
\* call or a child exit.
Fairness ==
  \A c \in CallIds : WF_vars(TimerFire(c)) /\ WF_vars(Continue(c))

FairSpec == Spec /\ Fairness

\* LogSpec is the log buffer of one task: every stream, chunk and budget, up to
\* MaxLogChunks chunks before and after the exit, every way to ask for the
\* logs, and one wait.
LogCaps == { [tasks |-> 1, calls |-> 1, chunks |-> MaxLogChunks] }
LogTaskIds == {1}
LogArgs == {Omitted, Given(0), Given(2), Given(MaxLogChunks + 1)}

LogInit ==
  /\ tasks = <<>>
  /\ task = <<>>
  /\ calls = <<>>
  /\ resp = NoResp
  /\ kills = {}
  /\ wrote = NoWrite
  /\ up = TRUE
  /\ cap \in LogCaps

LogNext ==
  \/ \E m \in MaxLogBytesArgs : task_start(m)
  \/ \E id \in LogTaskIds, s \in Streams, ch \in Chunks : Data(id, s, ch)
  \/ \E id \in LogTaskIds, ln \in ErrorLines : ProcError(id, ln)
  \/ \E id \in LogTaskIds, rep \in ExitReports : Exit(id, rep)
  \/ \E id \in LogTaskIds, offset \in LogArgs, tail \in LogArgs : task_logs(id, offset, tail)
  \/ \E id \in LogTaskIds : task_wait(id, Undefined)
  \/ \E c \in CallIds : Continue(c)

LogSpec == LogInit /\ [][LogNext]_vars

(* ============================== claims ================================= *)

IsWaitOrStop(c) == calls[c].kind \in {"wait", "stop"}

\* the call pushed a waiter in phase ph
Pushed(c, ph) == IsWaitOrStop(c) /\ (ph = 1 \/ Len(calls[c].sent) = 2)

Invoked(c, ph) == IF ph = 1 THEN calls[c].n1 ELSE calls[c].n2

Queued(c, ph) == Count(task[calls[c].id].waiters, Waiter(c, ph))

\* C1: lifecycle state is monotonic. Whatever step is taken (any operation,
\* any event, any continuation), a task record that is 'exited' before the
\* step is the same task and 'exited' after it, registered or not.
C1_StateMonotonic ==
  [][\A id \in DOMAIN task :
       task[id].state = "exited" =>
         id \in DOMAIN task' /\ task'[id].state = "exited"]_vars

\* C1 witness: an exited task was pruned, and a task was started after that
C1_Witness ==
  /\ Len(task) = 2
  /\ task[1].state = "exited"
  /\ ~getTaskOk(1)
  /\ getTaskOk(2)
  /\ task[2].state = "running"

\* C2: every waiter pushed while the task runs (by wait, by either phase of
\* stop) is invoked exactly once, by the exit event: not invoked and still
\* queued while the task is running, invoked once and no longer queued when it
\* is exited; never invoked twice; and a wait the exit resolved answers with
\* the final state, exit code and signal.
C2_WaitersOnceAtExit ==
  \A c \in DOMAIN calls : \A ph \in {1, 2} :
    LET t == task[calls[c].id] IN
    /\ Invoked(c, ph) <= 1
    /\ ~Pushed(c, ph) => Invoked(c, ph) = 0 /\ Queued(c, ph) = 0
    /\ Pushed(c, ph) /\ t.state = "running" =>
         Invoked(c, ph) = 0 /\ Queued(c, ph) = 1
    /\ Pushed(c, ph) /\ t.state = "exited" =>
         Invoked(c, ph) = 1 /\ Queued(c, ph) = 0
    /\ calls[c].kind = "wait" /\ calls[c].pc = "done" /\ calls[c].settled = "exit" =>
         /\ calls[c].res.s.state = "exited"
         /\ calls[c].res.s.exitCode = t.exitCode
         /\ calls[c].res.s.signal = t.signal

\* C2 witness: a stop that escalated and a wait were queued on a task; it has
\* exited and all three waiters have been invoked
C2_Witness ==
  \E c1, c2 \in DOMAIN calls :
    /\ calls[c1].kind = "stop" /\ calls[c2].kind = "wait"
    /\ calls[c1].id = calls[c2].id
    /\ calls[c1].n1 = 1 /\ calls[c1].n2 = 1 /\ calls[c2].n1 = 1
    /\ task[calls[c1].id].state = "exited"

\* C3: an exited task has an empty waiter list, in every reachable state; and
\* a wait or stop that answers without suspending answers with the current
\* summary of an exited task.
C3_ExitedHasNoWaiters ==
  /\ \A id \in DOMAIN task : task[id].state = "exited" => task[id].waiters = <<>>
  /\ resp.op \in {"wait", "stop"} /\ resp.a = 0 /\ resp.err = "none" =>
       /\ resp.s = summary(resp.id)
       /\ resp.s.state = "exited"

\* C3 witness: a task had a waiter, exited, and a wait on it has just
\* answered without suspending
C3_Witness ==
  /\ resp.op = "wait" /\ resp.a = 0 /\ resp.kind = "summary"
  /\ \E c \in DOMAIN calls : calls[c].id = resp.id /\ calls[c].n1 = 1
  /\ task[resp.id].waiters = <<>>

\* a wait that its own timer has not resolved
Waiting(c) == calls[c].kind = "wait" /\ calls[c].settled # "timer"

\* C4: two or more waits pending on the same running task when it exits all
\* resolve (none is left suspended once the continuations have run), and
\* they resolve with the same summary: state 'exited' and the same exitCode,
\* signal and logBytes.
C4_ConcurrentWaitsAgree ==
  \A c1, c2 \in DOMAIN calls :
    ( /\ c1 # c2
      /\ Waiting(c1) /\ Waiting(c2)
      /\ calls[c1].id = calls[c2].id
      /\ task[calls[c1].id].state = "exited" ) =>
    /\ Idle => calls[c1].pc = "done" /\ calls[c2].pc = "done"
    /\ calls[c1].pc = "done" /\ calls[c2].pc = "done" =>
         /\ calls[c1].res.kind = "summary"
         /\ calls[c1].res.s = calls[c2].res.s
         /\ calls[c1].res.s.state = "exited"
         /\ calls[c1].res.s.exitCode = task[calls[c1].id].exitCode
         /\ calls[c1].res.s.signal = task[calls[c1].id].signal

\* C4 witness: two waits on one task, both resolved by its exit, after output
C4_Witness ==
  \E c1, c2 \in DOMAIN calls :
    /\ c1 # c2
    /\ calls[c1].kind = "wait" /\ calls[c2].kind = "wait"
    /\ calls[c1].id = calls[c2].id
    /\ calls[c1].settled = "exit" /\ calls[c2].settled = "exit"
    /\ calls[c1].pc = "done" /\ calls[c2].pc = "done"
    /\ calls[c1].res.s.logBytes > 0

\* C5: a wait that timed out stays registered (its waiter is still queued
\* while the task runs) and takes nothing from the others: only a wait's own
\* timer gives it the timeout result; every wait that has not timed out is
\* resolved with the 'exited' summary once the task has exited and the
\* continuations have run; a wait issued after the exit answers at once with
\* the 'exited' summary.
C5_TimedOutWaitIsHarmless ==
  /\ \A c \in DOMAIN calls :
       calls[c].kind = "wait" =>
         LET t == task[calls[c].id] IN
         /\ calls[c].settled = "timer" => calls[c].timer = "fired"
         /\ calls[c].settled = "timer" /\ t.state = "running" => Queued(c, 1) = 1
         /\ calls[c].pc = "done" =>
              calls[c].res.kind = IF calls[c].settled = "timer" THEN "timeout"
                                  ELSE "summary"
         /\ Waiting(c) /\ t.state = "exited" /\ Idle =>
              /\ calls[c].pc = "done"
              /\ calls[c].res.kind = "summary"
              /\ calls[c].res.s.state = "exited"
  /\ resp.op = "wait" /\ resp.a = 0 /\ resp.err = "none" =>
       resp.kind = "summary" /\ resp.s.state = "exited"

\* C5 witness: one wait timed out, then the task exited and another wait on
\* it was resolved with the summary
C5_Witness ==
  \E c1, c2 \in DOMAIN calls :
    /\ calls[c1].kind = "wait" /\ calls[c2].kind = "wait"
    /\ calls[c1].id = calls[c2].id
    /\ calls[c1].pc = "done" /\ calls[c1].res.kind = "timeout"
    /\ calls[c2].pc = "done" /\ calls[c2].res.kind = "summary"
    /\ calls[c1].n1 = 1

StopPending(c) == c \in DOMAIN calls /\ calls[c].kind = "stop" /\ calls[c].pc # "done"

StopReturned(c) ==
  /\ c \in DOMAIN calls
  /\ calls[c].pc = "done"
  /\ calls[c].res.err = "none"
  /\ calls[c].res.kind = "summary"

\* C6: given that timers fire, every stop call on a registered task returns
\* a summary and no error: at once when the task is not running, and
\* otherwise eventually, whether or not the child ever exits.
C6_StopReturns ==
  /\ [](resp.op = "stop" /\ resp.err # "NotFound" =>
          resp.err = "none" /\ resp.kind = "summary")
  /\ \A c \in CallIds : StopPending(c) ~> StopReturned(c)

\* C6 witness: a stop returned after both of its timers fired, the task still
\* running
C6_Witness ==
  \E c \in DOMAIN calls :
    /\ calls[c].kind = "stop" /\ calls[c].pc = "done"
    /\ calls[c].sent = <<"SIGTERM", "SIGKILL">>
    /\ calls[c].settled = "timer"
    /\ calls[c].res.s.state = "running"

\* C7: stop escalates in a fixed order. Every stop that suspends has sent
\* SIGTERM first; it sends SIGKILL exactly when its timer won the first race,
\* to a task that is still running, and after its SIGTERM; a stop whose first
\* race the exit won sends no SIGKILL.
C7_StopEscalation ==
  /\ \A c \in DOMAIN calls :
       calls[c].kind = "stop" =>
         /\ calls[c].sent \in {<<"SIGTERM">>, <<"SIGTERM", "SIGKILL">>}
         /\ calls[c].sent = <<"SIGTERM", "SIGKILL">> <=> calls[c].won1 = "timer"
         /\ calls[c].won1 = "exit" => calls[c].sent = <<"SIGTERM">>
         /\ calls[c].pc = "await1" => calls[c].sent = <<"SIGTERM">>
  /\ \A k \in kills :
       k.by = "stop" =>
         /\ calls[k.c].kind = "stop"
         /\ k.state = "running"
         /\ k.sig = "SIGTERM" => calls[k.c].sent = <<"SIGTERM">>
         /\ k.sig = "SIGKILL" =>
              calls[k.c].sent = <<"SIGTERM", "SIGKILL">> /\ calls[k.c].won1 = "timer"

\* C7 witness: one stop has escalated, another returned without escalating
\* because the exit came first
C7_Witness ==
  \E c1, c2 \in DOMAIN calls :
    /\ calls[c1].kind = "stop" /\ calls[c1].sent = <<"SIGTERM", "SIGKILL">>
    /\ calls[c2].kind = "stop" /\ calls[c2].won1 = "exit" /\ calls[c2].pc = "done"

ToPrune(inc) == { id \in Range(tasks) : task[id].state = "exited" \/ inc = "true" }

\* C9: prune(includeRunning) removes exactly the exited tasks, and the running
\* ones too when includeRunning is true; the others stay, in order; 'removed'
\* is the number removed, 'remaining' the registry size afterwards, and they
\* add up to the size before.
C9_PruneExact ==
  [][\A inc \in PruneArgs :
       task_prune(inc) =>
         /\ Range(tasks') = Range(tasks) \ ToPrune(inc)
         /\ tasks' = SelectSeq(tasks, LAMBDA id : id \notin ToPrune(inc))
         /\ inc # "true" =>
              \A id \in Range(tasks) :
                (task[id].state = "running" <=> id \in Range(tasks'))
         /\ inc = "true" => tasks' = <<>>
         /\ resp'.err = "none"
         /\ resp'.a = Cardinality(ToPrune(inc))
         /\ resp'.b = Len(tasks')
         /\ resp'.a + resp'.b = Len(tasks)]_vars

\* C9 witness: prune has just removed one exited task and kept one running
C9_Witness ==
  /\ resp.op = "prune" /\ resp.a = 1 /\ resp.b = 1
  /\ \E id \in DOMAIN task : ~getTaskOk(id) /\ task[id].state = "exited"
  /\ \E id \in Range(tasks) : task[id].state = "running"

\* C10: prune only detaches. A step that answers a prune makes no proc.kill
\* and no stdin write, and leaves every task record (state, exit outcome, log
\* buffer, waiter list) and every suspended call as it was, for the tasks it
\* removes and for those it keeps.
C10_PruneOnlyDetaches ==
  [][resp'.op = "prune" =>
       /\ task' = task
       /\ calls' = calls
       /\ kills' = {}
       /\ wrote' = NoWrite]_vars

\* C10 witness: prune has just removed a running task that has a waiter
\* queued and output buffered; it is still running
C10_Witness ==
  /\ resp.op = "prune"
  /\ resp.a > 0
  /\ \E id \in DOMAIN task :
       /\ ~getTaskOk(id)
       /\ task[id].state = "running"
       /\ task[id].waiters # <<>>
       /\ task[id].logBytes > 0

\* the operations that take a task id
IdOps == {"status", "logs", "write", "signal", "stop", "wait"}

\* the response was given by the step the call arrived in, not after an await
AtCall(r) == r.op \in {"status", "logs", "signal"} \/ r.a = 0

\* C11: an id-taking operation (status, logs, write, signal, stop, wait)
\* answers with the not-found error exactly when its id is not in the registry
\* at the call, never issued or pruned, whatever the process does; and no call
\* suspends on, signals, or writes to a task that is not registered at the call.
C11_UnregisteredIsNotFound ==
  /\ [](/\ resp.op \in IdOps /\ AtCall(resp) =>
             (resp.err = "NotFound" <=> resp.id \notin Range(tasks))
        /\ \A k \in kills :
             k.by = "signal" \/ k.sig = "SIGTERM" => k.id \in Range(tasks)
        /\ wrote # NoWrite => wrote.id \in Range(tasks))
  /\ [][Len(calls') > Len(calls) =>
          calls'[Len(calls')].id \in Range(tasks)]_vars

\* C11 witness: stop has just failed with not-found on a task that was pruned
\* while it ran with a waiter queued, and that still runs
C11_Witness ==
  /\ resp.op = "stop" /\ resp.err = "NotFound"
  /\ resp.id \in DOMAIN task
  /\ task[resp.id].state = "running"
  /\ task[resp.id].waiters # <<>>

\* C12: write on a registered task whose state is 'exited' answers with the
\* not-running error, makes no stdin write and suspends no call; a stdin write
\* is made, and a write call suspended, only by a write on a registered task
\* whose state is 'running' at the call; and the not-running error is given
\* for exited tasks only.
C12_WriteNeedsRunning ==
  /\ [](/\ wrote # NoWrite =>
             /\ wrote.state = "running"
             /\ task[wrote.id].state = "running"
             /\ wrote.id \in Range(tasks)
        /\ resp.err = "NotRunning" =>
             /\ resp.op = "write"
             /\ resp.id \in Range(tasks)
             /\ task[resp.id].state = "exited"
             /\ wrote = NoWrite)
  /\ [][/\ \A id \in TaskIds, nl \in BOOLEAN :
            ( /\ task_write(id, nl)
              /\ id \in Range(tasks)
              /\ task[id].state = "exited" ) =>
            /\ resp'.op = "write" /\ resp'.err = "NotRunning"
            /\ wrote' = NoWrite
            /\ calls' = calls
        /\ ( /\ Len(calls') > Len(calls)
             /\ calls'[Len(calls')].kind = "write" ) =>
            /\ wrote' # NoWrite
            /\ wrote'.id = calls'[Len(calls')].id
            /\ task[wrote'.id].state = "running"]_vars

\* C12 witness: a write to a task went through while it ran; the task exited
\* and a write to it has just failed with not-running
C12_Witness ==
  /\ resp.op = "write" /\ resp.err = "NotRunning"
  /\ \E c \in DOMAIN calls :
       /\ calls[c].kind = "write" /\ calls[c].id = resp.id
       /\ calls[c].pc = "done" /\ calls[c].res.kind = "ok"

\* the registry a caller can reach: it lives in the controller's memory
Registry == IF up THEN tasks ELSE <<>>

\* C13: an operation that fails leaves the registry and every task record as
\* they were before the call: a start whose spawn yields no pid answers with
\* the launch error and registers no task, the registry holding after it what
\* it held before; and after a not-found, not-running or any other error every
\* task's state, exit outcome, log buffer and waiter list are unchanged.
C13_FailureChangesNothing ==
  [][resp'.err # "none" =>
       /\ Registry' = Registry
       /\ task' = task]_vars

\* what the retained items account for: text bytes plus overhead, each
RECURSIVE Accounted(_)
Accounted(items) ==
  IF items = <<>> THEN 0
  ELSE Head(items).bytes + LOG_ITEM_OVERHEAD + Accounted(Tail(items))

\* C14: for every task, after any sequence of stdout chunks, stderr chunks and
\* process-error lines, and the evictions they cause, logBytes is the sum over
\* the retained items of the byte length of the item's text plus 16; and
\* logBytes is 0 exactly when no item is retained.
C14_LogBytesExact ==
  \A id \in DOMAIN task :
    /\ task[id].logBytes = Accounted(task[id].logs)
    /\ task[id].logBytes = 0 <=> task[id].logs = <<>>

\* C14 witness: three chunks have come, a process-error line among them; the
\* first was evicted and two are retained
C14_Witness ==
  \E id \in DOMAIN task :
    /\ task[id].seen = 3
    /\ Len(task[id].logs) = 2
    /\ \E i \in DOMAIN task[id].logs :
         task[id].logs[i].bytes = TextBytes(CHOOSE ln \in ErrorLines : TRUE)

\* the item a chunk becomes when it arrives for task id
Arrived(id, stream, chunk) ==
  [stream |-> stream, bytes |-> TextBytes(chunk), n |-> task[id].seen + 1]

\* s is all with its k oldest items dropped
Dropped(s, all, k) == s = SubSeq(all, k + 1, Len(all))

\* C15: after every append logBytes <= maxLogBytes, and the retained items are
\* the most recent chunks in arrival order: an append leaves the items held
\* before plus the new one, tags and texts as they came, less the k oldest,
\* where k is the least number that brings the buffer within its budget; a
\* chunk that is larger than the whole budget leaves the buffer empty; and the
\* retained items are always the last Len(logs) chunks that arrived.
C15_BudgetAndSuffix ==
  /\ [](\A id \in DOMAIN task :
          /\ task[id].logBytes <= task[id].maxLogBytes
          /\ \A i \in DOMAIN task[id].logs :
               task[id].logs[i].n = task[id].seen - Len(task[id].logs) + i)
  /\ [][\A id \in LogTaskIds, st \in Streams, ch \in Chunks \cup ErrorLines :
          Data(id, st, ch) =>
            LET all == Append(task[id].logs, Arrived(id, st, ch))
                max == task[id].maxLogBytes
            IN  /\ \E k \in 0..Len(all) :
                     /\ Dropped(task'[id].logs, all, k)
                     /\ Accounted(SubSeq(all, k + 1, Len(all))) <= max
                     /\ k > 0 => Accounted(SubSeq(all, k, Len(all))) > max
                /\ TextBytes(ch) + LOG_ITEM_OVERHEAD > max =>
                     task'[id].logs = <<>> /\ task'[id].logBytes = 0]_vars

\* C15 witness: three chunks have come to a task with the smallest budget, and
\* its buffer is empty
C15_Witness ==
  \E id \in DOMAIN task :
    /\ task[id].seen = 3
    /\ task[id].logs = <<>>
    /\ task[id].maxLogBytes = MIN_MAX_LOG_BYTES

\* what logs(id, offset, tail) is to select from the retained items
Selected(items, offset, tail) ==
  LET n == Len(items) IN
  IF tail # Omitted
  THEN LET m == IF tail[1] < n THEN tail[1] ELSE n
       IN  [i \in 1..m |-> items[n - m + i]]
  ELSE IF offset # Omitted
  THEN IF offset[1] >= n THEN <<>>
       ELSE [i \in 1..(n - offset[1]) |-> items[offset[1] + i]]
  ELSE items

\* C16: logs(id, offset, tail) on a registered task with n retained items
\* selects, in order, the last min(tail, n) items when tail is given, whether
\* or not offset is; otherwise the items from 0-based index offset to the end
\* (none when offset >= n) when offset is given; otherwise all n.  It reports
\* logItemCount = n and returnedCount = the number selected, without error,
\* and changes no task, no registry entry and no pending call.
C16_LogsSelection ==
  [][\A id \in LogTaskIds, offset \in LogArgs, tail \in LogArgs :
       task_logs(id, offset, tail) /\ id \in Range(tasks) =>
         LET sel == Selected(task[id].logs, offset, tail) IN
         /\ resp'.op = "logs" /\ resp'.err = "none"
         /\ resp'.items = sel
         /\ resp'.a = Len(task[id].logs)
         /\ resp'.b = Len(sel)
         /\ task' = task /\ tasks' = tasks /\ calls' = calls
         /\ kills' = {} /\ wrote' = NoWrite]_vars

\* C16 witness: logs has just returned the last two of three retained items
C16_Witness ==
  /\ resp.op = "logs" /\ resp.a = 3 /\ resp.b = 2
  /\ resp.items = SubSeq(task[resp.id].logs, 2, 3)

\* C17: the exit outcome goes with the lifecycle state.  While a task is
\* 'running' its exitCode and signal are both null; the exit event sets them
\* to exactly the code and signal the OS reports, of which one is null and the
\* other is not; and once the task is 'exited' no step changes them.
C17_ExitOutcome ==
  /\ [](\A id \in DOMAIN task :
          /\ task[id].state = "running" =>
               task[id].exitCode = NullCode /\ task[id].signal = Null
          /\ task[id].state = "exited" =>
               (task[id].exitCode = NullCode) # (task[id].signal = Null))
  /\ [][/\ \A id \in TaskIds, rep \in ExitReports :
            Exit(id, rep) =>
              /\ task'[id].state = "exited"
              /\ task'[id].exitCode = rep.code
              /\ task'[id].signal = rep.sig
        /\ \A id \in DOMAIN task :
            task[id].state = "exited" =>
              /\ task'[id].exitCode = task[id].exitCode
              /\ task'[id].signal = task[id].signal]_vars

\* C17 witness: one task exited with code 0 and was pruned after that; another
\* was killed by SIGKILL and has a chunk in its buffer
C17_Witness ==
  /\ \E id \in DOMAIN task :
       /\ task[id].state = "exited"
       /\ task[id].exitCode = 0 /\ task[id].signal = Null
       /\ id \notin Range(tasks)
  /\ \E id \in DOMAIN task :
       /\ task[id].state = "exited"
       /\ task[id].exitCode = NullCode /\ task[id].signal = "SIGKILL"
       /\ task[id].seen = 1

\* the SIGTERMs a termination request is to send: one to every task that is
\* registered and running
ShutdownKills ==
  { [id |-> id, sig |-> "SIGTERM", by |-> "shutdown", c |-> 0, state |-> "running"] :
      id \in { k \in Range(tasks) : task[k].state = "running" } }

\* C18: on a termination request to the controller (SIGINT or SIGTERM) every
\* task that is registered and 'running' is sent SIGTERM and no other task is
\* sent anything, and the controller then exits, waiting for no task: after
\* the step the controller is not running.  (Stated for a request that finds
\* a task to signal.)
C18_ShutdownSignalsAndExits ==
  [][shutdown /\ ShutdownKills # {} =>
       /\ kills' = ShutdownKills
       /\ task' = task
       /\ ~up']_vars

\* C19: a stdout or stderr chunk that arrives after the task's exit event was
\* processed is appended like any other: it counts as arrived, the buffer
\* afterwards is the items held before plus the new one with its stream tag,
\* less the fewest oldest items that bring it within the budget, logBytes
\* accounts for exactly what is retained; and state, exitCode, signal and the
\* waiter list are unchanged.
C19_LateOutputAppended ==
  [][\A id \in LogTaskIds, st \in Streams, ch \in Chunks :
       Data(id, st, ch) /\ task[id].state = "exited" =>
         LET all == Append(task[id].logs, Arrived(id, st, ch))
             max == task[id].maxLogBytes
         IN  /\ task'[id].seen = task[id].seen + 1
             /\ \E k \in 0..Len(all) :
                  /\ Dropped(task'[id].logs, all, k)
                  /\ Accounted(SubSeq(all, k + 1, Len(all))) <= max
                  /\ k > 0 => Accounted(SubSeq(all, k, Len(all))) > max
             /\ TextBytes(ch) + LOG_ITEM_OVERHEAD <= max =>
                  /\ task'[id].logs # <<>>
                  /\ task'[id].logs[Len(task'[id].logs)].stream = st
             /\ task'[id].logBytes = Accounted(task'[id].logs)
             /\ task'[id].state = "exited"
             /\ task'[id].exitCode = task[id].exitCode
             /\ task'[id].signal = task[id].signal
             /\ task'[id].waiters = task[id].waiters]_vars

\* C19 witness: a wait was answered at the exit with the summary of a buffer
\* that held output; the third chunk, on stderr, came after that, evicted what
\* was held, and is all the buffer holds now
C19_Witness ==
  \E c \in DOMAIN calls :
    LET t == task[calls[c].id] IN
    /\ calls[c].pc = "done" /\ calls[c].res.s.state = "exited"
    /\ t.state = "exited"
    /\ calls[c].res.s.logBytes > t.logBytes
    /\ Len(t.logs) = 1
    /\ t.logs[1].n = 3
    /\ t.logs[1].stream = "stderr"
    /\ t.logs[1].bytes = 500

\* C20: a process-error event on a started task only appends one diagnostic
\* item tagged 'stderr' to that task's log buffer (under the usual eviction).
\* The task's state, exitCode, signal and waiter list are as before, so a
\* running task stays running; no waiter is invoked and no suspended call is
\* settled or answered; no operation gets an error or any response from it; no
\* other task, and not the registry, is touched; the controller runs on.
C20_ProcessErrorOnlyLogs ==
  [][\A id \in TaskIds, ln \in ErrorLines :
       ProcError(id, ln) =>
         LET all == Append(task[id].logs, Arrived(id, "stderr", ln)) IN
         /\ task'[id].seen = task[id].seen + 1
         /\ \E k \in 0..Len(all) : Dropped(task'[id].logs, all, k)
         /\ task'[id].logs # <<>>
         /\ task'[id].logs[Len(task'[id].logs)] = Arrived(id, "stderr", ln)
         /\ task'[id].state = task[id].state
         /\ task'[id].exitCode = task[id].exitCode
         /\ task'[id].signal = task[id].signal
         /\ task'[id].waiters = task[id].waiters
         /\ \A other \in DOMAIN task \ {id} : task'[other] = task[other]
         /\ calls' = calls
         /\ tasks' = tasks
         /\ resp' = NoResp /\ kills' = {} /\ wrote' = NoWrite
         /\ up']_vars

\* C20 witness: a running task with a wait suspended on it has had a process
\* error: its buffer holds the diagnostic line, it still runs, the wait still
\* waits
C20_Witness ==
  \E c \in DOMAIN calls :
    LET t == task[calls[c].id] IN
    /\ calls[c].kind = "wait" /\ calls[c].pc = "await1"
    /\ calls[c].settled = "pending"
    /\ t.state = "running"
    /\ t.waiters # <<>>
    /\ Len(t.logs) = 1
    /\ t.logs[1].stream = "stderr"
    /\ t.logs[1].bytes = TextBytes(CHOOSE ln \in ErrorLines : TRUE)

====
